---- MODULE Spec2Model ----
(***************************************************************************)
(* Model of jira_chatbot.py: the JiraChatbot session object (conversation  *)
(* history, AI backend call, natural-language-to-JQL translation, issue    *)
(* listing / details, command dispatch) and the read loop of main().       *)
(*                                                                         *)
(* Text is modelled as a sequence of one-character strings so that lower,  *)
(* upper, strip, startswith and split are computed as Python computes      *)
(* them.  A Python call that may raise returns [exc, val]: exc = TRUE      *)
(* means an Exception left the function, val then names the exception.     *)
(* Spec explores every command with every outcome of the backend and the   *)
(* tracker over a short history; SpecWindow explores histories longer than *)
(* the five-turn window with one command of each kind.                     *)
(***************************************************************************)
EXTENDS Integers, Sequences, FiniteSets, TLC

(* ------------------------------ bounds --------------------------------- *)
\* Largest number of exchanges (a user turn and its assistant turn) recorded
\* in conversation_history in SpecWindow.
MaxExchanges == 3
\* Largest number of exchanges recorded in conversation_history in Spec.
MaxDispatchExchanges == 1

(* ------------------------- Python str helpers -------------------------- *)
LowerAlpha == <<"a","b","c","d","e","f","g","h","i","j","k","l","m",
                "n","o","p","q","r","s","t","u","v","w","x","y","z">>
UpperAlpha == <<"A","B","C","D","E","F","G","H","I","J","K","L","M",
                "N","O","P","Q","R","S","T","U","V","W","X","Y","Z">>
Whitespace == {" ", "\t", "\n", "\r"}

UpperLetters == {UpperAlpha[i] : i \in 1..26}
LowerLetters == {LowerAlpha[i] : i \in 1..26}
LowerOf == [c \in UpperLetters |-> LowerAlpha[CHOOSE i \in 1..26 : UpperAlpha[i] = c]]
UpperOf == [c \in LowerLetters |-> UpperAlpha[CHOOSE i \in 1..26 : LowerAlpha[i] = c]]

LowerChar(c) == IF c \in UpperLetters THEN LowerOf[c] ELSE c

UpperChar(c) == IF c \in LowerLetters THEN UpperOf[c] ELSE c

\* str.lower()
Lower(s) == [i \in 1..Len(s) |-> LowerChar(s[i])]

\* str.upper()
Upper(s) == [i \in 1..Len(s) |-> UpperChar(s[i])]

\* str.strip(): drops leading and trailing whitespace
Strip(s) ==
  LET keep == {i \in 1..Len(s) : s[i] \notin Whitespace}
  IN IF keep = {} THEN <<>>
     ELSE LET lo == CHOOSE i \in keep : \A j \in keep : i <= j
              hi == CHOOSE i \in keep : \A j \in keep : i >= j
          IN SubSeq(s, lo, hi)

\* str.startswith(prefix)
StartsWith(s, prefix) ==
  /\ Len(s) >= Len(prefix)
  /\ SubSeq(s, 1, Len(prefix)) = prefix

\* str.find(sep) + 1, or 0 when sep does not occur in s
FindFirst(s, sep) ==
  LET hits == {i \in 1..(Len(s) - Len(sep) + 1) :
                 SubSeq(s, i, i + Len(sep) - 1) = sep}
  IN IF hits = {} THEN 0 ELSE CHOOSE i \in hits : \A j \in hits : i <= j

\* str.split(sep) for a non-empty sep: every occurrence of sep, left to right
RECURSIVE Split(_, _)
Split(s, sep) ==
  LET at == FindFirst(s, sep)
  IN IF at = 0 THEN <<s>>
     ELSE <<SubSeq(s, 1, at - 1)>> \o Split(SubSeq(s, at + Len(sep), Len(s)), sep)

\* Python truthiness of a str
Truthy(s) == Len(s) > 0

\* LastN without the window: the whole list
LastN_Whole(list, n) == list

\* list[-n:]
LastN(list, n) ==
  IF Len(list) <= n THEN list ELSE SubSeq(list, Len(list) - n + 1, Len(list))

(* ------------------------- Python call results ------------------------- *)
Ok(v) == [exc |-> FALSE, val |-> v]
Raise(e) == [exc |-> TRUE, val |-> e]

(* ------------------------------ literals ------------------------------- *)
DEFAULT_JQL == <<"a", "s", "s", "i", "g", "n", "e", "e", " ", "=", " ", "c", "u", "r", "r", "e", "n", "t", "U", "s", "e", "r", "(", ")", " ", "O", "R", "D", "E", "R", " ", "B", "Y", " ", "c", "r", "e", "a", "t", "e", "d", " ", "D", "E", "S", "C">>
\* DETAILS_PREFIX without its trailing blank
DETAILS_PREFIX_NoSpace == <<"d", "e", "t", "a", "i", "l", "s">>
DETAILS_PREFIX == <<"d", "e", "t", "a", "i", "l", "s", " ">>
MY_ISSUES == <<"m", "y", " ", "i", "s", "s", "u", "e", "s">>
SHOW_MY_ISSUES == <<"s", "h", "o", "w", " ", "m", "y", " ", "i", "s", "s", "u", "e", "s">>
LIST_ISSUES == <<"l", "i", "s", "t", " ", "i", "s", "s", "u", "e", "s">>
HELP == <<"h", "e", "l", "p">>
QMARK == <<"?">>
EXIT == <<"e", "x", "i", "t">>
QUIT == <<"q", "u", "i", "t">>
BYE == <<"b", "y", "e">>
In_MyIssues == <<"m", "y", " ", "i", "s", "s", "u", "e", "s">>
In_ShowMyIssuesMixed == <<" ", " ", "S", "h", "o", "w", " ", "M", "y", " ", "I", "s", "s", "u", "e", "s", " ">>
In_ListIssuesUpper == <<"L", "I", "S", "T", " ", "I", "S", "S", "U", "E", "S">>
In_Details == <<"d", "e", "t", "a", "i", "l", "s", " ", "a", "b", "c", "-", "1">>
In_DetailsMixed == <<" ", "D", "E", "T", "A", "I", "L", "S", " ", " ", "A", "b", "c", "-", "1", " ">>
In_DetailsTwice == <<"d", "e", "t", "a", "i", "l", "s", " ", "a", "b", " ", "d", "e", "t", "a", "i", "l", "s", " ", "c", "d">>
In_Help == <<"H", "e", "l", "p">>
In_QMark == <<"?">>
In_Exit == <<"e", "x", "i", "t">>
In_Quit == <<" ", "Q", "U", "I", "T">>
In_Bye == <<"b", "y", "e">>
In_Empty == <<>>
In_Blank == <<" ", " ">>
In_BareDetails == <<"d", "e", "t", "a", "i", "l", "s">>
In_Natural == <<"S", "h", "o", "w", " ", "b", "u", "g", "s">>
Txt_JqlPadded == <<" ", "t", "y", "p", "e", " ", "=", " ", "B", "u", "g", "\n">>
Txt_Empty == <<>>
Txt_Blank == <<" ", "\n">>
Msg_Timeout == <<"t", "i", "m", "e", "o", "u", "t">>
Msg_Empty == <<>>

KEY_ABC1 == <<"A", "B", "C", "-", "1">>
TS_ISO == <<"2", "0", "2", "4", "-", "0", "1", "-", "0", "5", "T", "1", "0", ":", "1", "1", ":", "1", "2", ".", "0", "0", "0", "+", "0", "0", "0", "0">>
TS_BAD == <<"y", "e", "s", "t", "e", "r", "d", "a", "y">>
\* the fixed few-shot instruction text of _generate_jql_from_natural_language,
\* never inspected by the program: one opaque atom
JQL_SYSTEM_PROMPT == <<"You are a Jira query expert. ...">>
\* message.content = None (the completion carried no text)
NONE_CONTENT == <<"<None>">>

(* ----------------------------- constants ------------------------------- *)
\* conversation_history[-5:]
WindowSize == 5
\* date_str[:19]
DateLen == 19

(* ------------------------- external collaborators ---------------------- *)
\* What openai.ChatCompletion.create / response.choices[0].message.content
\* can do: deliver a content, or raise (transport error, malformed response).
BackendSuccesses ==
  { [ok |-> TRUE, content |-> c, msg |-> <<>>] :
      c \in {Txt_JqlPadded, Txt_Empty, Txt_Blank, NONE_CONTENT} }
BackendFailures ==
  { [ok |-> FALSE, content |-> <<>>, msg |-> m] : m \in {Msg_Timeout, Msg_Empty} }
NoBackend == [ok |-> FALSE, content |-> <<>>, msg |-> <<>>]

IssueFields == {"key", "summary", "status", "priority", "created", "updated", "description"}
RequiredFields == {"key", "summary", "status", "priority", "created", "updated"}

MkIssue(has, created, description) ==
  [has |-> has, key |-> KEY_ABC1, summary |-> <<"Fix login">>, status |-> <<"Open">>,
   priority |-> <<"High">>, created |-> created, updated |-> TS_ISO,
   description |-> description]

IssueFull == MkIssue(IssueFields, TS_ISO, <<"Steps to reproduce">>)
IssueNoDescription == MkIssue(RequiredFields, TS_ISO, <<>>)
IssueEmptyDescription == MkIssue(IssueFields, TS_ISO, <<>>)
IssueBadDate == MkIssue(IssueFields, TS_BAD, <<"Steps to reproduce">>)
IssueMalformed == MkIssue({"key"}, TS_ISO, <<>>)
EmptyDict == MkIssue({}, TS_ISO, <<>>)

\* Python values the tracker search can deliver (after json.loads if text):
\* None, a non-empty list (no .get), or a dict with or without "issues" and
\* "total"
PyNone == [type |-> "None", hasIssues |-> FALSE, issues |-> <<>>, hasTotal |-> FALSE, total |-> 0]
PyList == [type |-> "list", hasIssues |-> FALSE, issues |-> <<>>, hasTotal |-> FALSE, total |-> 0]
SearchDict(hasIssues, issues, hasTotal, total) ==
  [type |-> "dict", hasIssues |-> hasIssues, issues |-> issues, hasTotal |-> hasTotal, total |-> total]
\* {"issues": []}
EMPTY_RESULT == SearchDict(TRUE, <<>>, FALSE, 0)

SearchValues ==
  { PyNone, PyList,
    SearchDict(TRUE, <<>>, TRUE, 0),
    SearchDict(TRUE, <<IssueFull, IssueBadDate>>, FALSE, 0),
    SearchDict(TRUE, <<IssueFull, IssueMalformed>>, TRUE, 2) }
\* "raise": the tracker call or json.loads raised; "json": the answer came
\* as JSON text; "obj": it came as a Python value
SearchOutcomes ==
  { [kind |-> "raise", value |-> PyNone] }
  \cup { [kind |-> "obj", value |-> v] : v \in SearchValues }
  \cup { [kind |-> "json", value |-> SearchDict(TRUE, <<IssueFull>>, TRUE, 1)] }
NoSearch == [kind |-> "raise", value |-> PyNone]

\* Python values the tracker fetch-by-id can deliver
FetchNone == [type |-> "None", issue |-> EmptyDict]
FetchDict(issue) == [type |-> "dict", issue |-> issue]
FetchValues ==
  { FetchNone } \cup
  { FetchDict(i) : i \in {IssueNoDescription, IssueEmptyDescription,
                          IssueMalformed, EmptyDict} }
FetchOutcomes ==
  { [kind |-> "raise", value |-> FetchNone] }
  \cup { [kind |-> "obj", value |-> v] : v \in FetchValues }
  \cup { [kind |-> "json", value |-> FetchDict(IssueFull)] }
NoFetch == [kind |-> "raise", value |-> FetchNone]

(* --------------------------- module functions -------------------------- *)
\* jira_jql_search: the response, parsed when it is text; {"issues": []}
\* when the call or the parse raises
jira_jql_search(jql, outcome) ==
  IF outcome.kind = "raise" THEN EMPTY_RESULT ELSE outcome.value

\* jira_get_issue: the response, parsed when it is text; None when the call
\* or the parse raises
jira_get_issue(issue_key, outcome) ==
  IF outcome.kind = "raise" THEN FetchNone ELSE outcome.value

(* ------------------------------ JiraChatbot ---------------------------- *)
Turn(role, content) == [role |-> role, content |-> content]

\* What a method hands back: exc/val as for Ok and Raise, the conversation
\* history it leaves behind and the collaborator calls it made, in order.
Result(r, history, trace) ==
  [exc |-> r.exc, val |-> r.val, history |-> history, trace |-> trace]

\* A display string, by its parts
Display(kind, key, total, blocks) ==
  [kind |-> kind, key |-> key, total |-> total, blocks |-> blocks]

\* get_ai_response recording the trimmed response instead of the raw one
get_ai_response_RecordsStripped(history, prompt, system_prompt, outcome) ==
  LET messages == <<Turn("system", system_prompt)>>
                    \o LastN(history, WindowSize)
                    \o <<Turn("user", prompt)>>
      call == [fn |-> "backend", messages |-> messages]
  IN IF outcome.ok
       THEN Result(Ok(outcome.content),
                   history \o <<Turn("user", prompt), Turn("assistant", Strip(outcome.content))>>,
                   <<call>>)
       ELSE Result(Ok(outcome.msg), history, <<call>>)

\* get_ai_response recording the prompt before the backend is called
get_ai_response_RecordsPromptFirst(history, prompt, system_prompt, outcome) ==
  LET messages == <<Turn("system", system_prompt)>>
                    \o LastN(history, WindowSize)
                    \o <<Turn("user", prompt)>>
      call == [fn |-> "backend", messages |-> messages]
  IN IF outcome.ok
       THEN Result(Ok(outcome.content),
                   history \o <<Turn("user", prompt), Turn("assistant", outcome.content)>>,
                   <<call>>)
       ELSE Result(Ok(outcome.msg), history \o <<Turn("user", prompt)>>, <<call>>)

\* _get_ai_response: one chat completion over system turn + window + prompt;
\* on success both turns are recorded, on any exception str(e) is returned
get_ai_response(history, prompt, system_prompt, outcome) ==
  LET messages == <<Turn("system", system_prompt)>>
                    \o LastN(history, WindowSize)
                    \o <<Turn("user", prompt)>>
      call == [fn |-> "backend", messages |-> messages]
  IN IF outcome.ok
       THEN Result(Ok(outcome.content),
                   history \o <<Turn("user", prompt), Turn("assistant", outcome.content)>>,
                   <<call>>)
       ELSE Result(Ok(outcome.msg), history, <<call>>)

\* _generate_jql_from_natural_language: the stripped response; the fallback
\* query when _get_ai_response or .strip() raises (None has no strip)
generate_jql_return(query, r, jql) ==
  Result(Ok(jql), r.history,
         <<[fn |-> "translate", query |-> query, ret |-> jql]>> \o r.trace)

generate_jql_strip(query, r) ==
  generate_jql_return(query, r,
    IF r.exc \/ r.val = NONE_CONTENT THEN DEFAULT_JQL ELSE Strip(r.val))

generate_jql_from_natural_language(history, query, outcome) ==
  generate_jql_strip(query, get_ai_response(history, query, JQL_SYSTEM_PROMPT, outcome))

Digits == {"0", "1", "2", "3", "4", "5", "6", "7", "8", "9"}
DateSeparators == [i \in {5, 8, 11, 14, 17} |->
                     IF i \in {5, 8} THEN "-" ELSE IF i = 11 THEN "T" ELSE ":"]

\* _format_date: the first 19 characters parsed as %Y-%m-%dT%H:%M:%S and
\* written as %Y-%m-%d %H:%M:%S; the input itself when parsing raises.
\* (Zero-padded fields only; field ranges are not checked.)
format_date(date_str) ==
  LET head == SubSeq(date_str, 1, IF Len(date_str) < DateLen THEN Len(date_str) ELSE DateLen)
      parses == /\ Len(head) = DateLen
                /\ \A i \in 1..DateLen :
                     IF i \in DOMAIN DateSeparators
                       THEN head[i] = DateSeparators[i]
                       ELSE head[i] \in Digits
  IN IF parses THEN [head EXCEPT ![11] = " "] ELSE date_str

Line(label, text) == [label |-> label, text |-> text]

\* _format_issue_display: the labelled lines of one issue; KeyError when a
\* field is missing, TypeError when the value is not a mapping
format_issue_display(issue, isDict, include_description) ==
  IF ~isDict THEN Raise("TypeError")
  ELSE IF ~(RequiredFields \subseteq issue.has) THEN Raise("KeyError")
  ELSE Ok(<<Line("Issue Key", issue.key),
            Line("Summary", issue.summary),
            Line("Status", issue.status),
            Line("Priority", issue.priority),
            Line("Created", format_date(issue.created)),
            Line("Updated", format_date(issue.updated))>>
          \o (IF /\ include_description
                 /\ "description" \in issue.has
                 /\ Truthy(issue.description)
                THEN <<Line("Description", issue.description)>>
                ELSE <<>>))

\* NoIssues testing only "not response"
NoIssues_OnlyNotResponse(response) ==
  CASE response.type = "None" -> "yes"
    [] response.type = "list" -> "raise"
    [] OTHER -> IF response.hasIssues \/ response.hasTotal THEN "no" ELSE "yes"

\* not response or not response.get("issues"): "raise" when response has no get
NoIssues(response) ==
  CASE response.type = "None" -> "yes"
    [] response.type = "list" -> "raise"
    [] OTHER -> IF response.hasIssues /\ Len(response.issues) > 0 THEN "no" ELSE "yes"

\* get_my_issues, lines 131-137: the header and one block per issue; the
\* first issue that cannot be formatted ends it in the except clause
get_my_issues_format(t, searched, issues, total, blocks, bad) ==
  IF bad = {}
    THEN Result(Ok(Display("Found", <<>>, total, [i \in 1..Len(issues) |-> blocks[i].val])),
                t.history,
                searched \o [i \in 1..Len(issues) |-> [fn |-> "format", key |-> issues[i].key]])
    ELSE Result(Ok(Display("ErrorFetchingIssues", <<>>, 0, <<>>)),
                t.history,
                searched \o [i \in 1..(CHOOSE i \in bad : \A j \in bad : i <= j) |->
                               [fn |-> "format", key |-> issues[i].key]])

get_my_issues_blocks(t, searched, issues, total, blocks) ==
  get_my_issues_format(t, searched, issues, total, blocks,
                       {i \in 1..Len(issues) : blocks[i].exc})

\* get_my_issues, lines 125-129: nothing found, or the issues and their total
get_my_issues_check(t, response, searched, none) ==
  IF none = "raise"
    THEN Result(Ok(Display("ErrorFetchingIssues", <<>>, 0, <<>>)), t.history, searched)
  ELSE IF none = "yes"
    THEN Result(Ok(Display("NoIssuesFound", <<>>, 0, <<>>)), t.history, searched)
  ELSE get_my_issues_blocks(t, searched, response.issues,
         IF response.hasTotal THEN response.total ELSE Len(response.issues),
         [i \in 1..Len(response.issues) |->
            format_issue_display(response.issues[i], TRUE, FALSE)])

get_my_issues_response(t, response) ==
  get_my_issues_check(t, response,
                      t.trace \o <<[fn |-> "search", jql |-> t.val, ret |-> response]>>,
                      NoIssues(response))

\* get_my_issues, lines 119-123: the search with the query t.val
get_my_issues_search(t, search) ==
  IF t.exc
    THEN Result(Ok(Display("ErrorFetchingIssues", <<>>, 0, <<>>)), t.history, t.trace)
    ELSE get_my_issues_response(t, jira_jql_search(t.val, search))

\* get_my_issues: translate when a query is given, search, format the listing
get_my_issues(history, given, natural_query, backend, search) ==
  get_my_issues_search(
    IF given /\ Truthy(natural_query)
      THEN generate_jql_from_natural_language(history, natural_query, backend)
      ELSE Result(Ok(DEFAULT_JQL), history, <<>>),
    search)

\* get_issue_details without its except clause
get_issue_details_NoExcept(history, issue_key, response, block) ==
  IF \/ response.type = "None"
     \/ response.type = "dict" /\ response.issue.has = {}
    THEN Result(Ok(Display("NotFound", issue_key, 0, <<>>)), history,
                <<[fn |-> "fetch", key |-> issue_key, ret |-> response]>>)
  ELSE IF block.exc
    THEN Result(Raise(block.val), history,
                <<[fn |-> "fetch", key |-> issue_key, ret |-> response]>>)
  ELSE Result(Ok(Display("Details", issue_key, 0, <<block.val>>)), history,
              <<[fn |-> "fetch", key |-> issue_key, ret |-> response]>>)

\* get_issue_details, lines 151-159: not-found when nothing came, else the
\* details block; an exception while formatting ends in the except clause
get_issue_details_format(history, issue_key, response, block) ==
  IF \/ response.type = "None"
     \/ response.type = "dict" /\ response.issue.has = {}
    THEN Result(Ok(Display("NotFound", issue_key, 0, <<>>)), history,
                <<[fn |-> "fetch", key |-> issue_key, ret |-> response]>>)
  ELSE IF block.exc
    THEN Result(Ok(Display("ErrorFetchingDetails", <<>>, 0, <<>>)), history,
                <<[fn |-> "fetch", key |-> issue_key, ret |-> response]>>)
  ELSE Result(Ok(Display("Details", issue_key, 0, <<block.val>>)), history,
              <<[fn |-> "fetch", key |-> issue_key, ret |-> response]>>)

get_issue_details_response(history, issue_key, response) ==
  get_issue_details_format(history, issue_key, response,
    format_issue_display(response.issue, response.type = "dict", TRUE))

\* get_issue_details: fetch by key and format
get_issue_details(history, issue_key, fetch) ==
  get_issue_details_response(history, issue_key, jira_get_issue(issue_key, fetch))

\* _get_help
get_help == Display("Help", <<>>, 0, <<>>)

\* ListingCommands without 'list issues'
ListingCommands_Short == {MY_ISSUES, SHOW_MY_ISSUES}
ListingCommands == {MY_ISSUES, SHOW_MY_ISSUES, LIST_ISSUES}
HelpCommands == {HELP, QMARK}
ExitCommands == {EXIT, QUIT, BYE}

\* command.lower().strip()
Normalize(command) == Strip(Lower(command))

\* process_command, lines 165-176: route the normalised command
process_command_route(history, cmd, backend, search, fetch) ==
  IF cmd \in ListingCommands
    THEN get_my_issues(history, FALSE, <<>>, backend, search)
  ELSE IF StartsWith(cmd, DETAILS_PREFIX)
    THEN IF Len(Split(cmd, DETAILS_PREFIX)) < 2
           THEN Result(Raise("IndexError"), history, <<>>)
           ELSE get_issue_details(history, Upper(Strip(Split(cmd, DETAILS_PREFIX)[2])), fetch)
  ELSE IF cmd \in HelpCommands
    THEN Result(Ok(get_help), history, <<>>)
  ELSE IF cmd \in ExitCommands
    THEN Result(Ok(Display("exit", <<>>, 0, <<>>)), history, <<>>)
  ELSE get_my_issues(history, TRUE, cmd, backend, search)

\* process_command
process_command(history, command, backend, search, fetch) ==
  process_command_route(history, Normalize(command), backend, search, fetch)

(* ------------------------------- state --------------------------------- *)
VARIABLES
  conversation_history,  \* JiraChatbot.conversation_history
  loop,                  \* main's while True: "running" or "stopped"
  op,                    \* the step taken last and the text it was given
  env,                   \* what the backend and the tracker did in that step
  history_before,        \* conversation_history when that step began
  ret,                   \* what process_command handed back in that step
  trace                  \* the collaborator calls of that step, in order

vars == <<conversation_history, loop, op, env, history_before, ret, trace>>

NotCalled == Ok(Display("not_called", <<>>, 0, <<>>))
Quiet == [backend |-> NoBackend, search |-> NoSearch, fetch |-> NoFetch]

\* Lines a user can type
Commands ==
  { In_MyIssues, In_ShowMyIssuesMixed, In_ListIssuesUpper,
    In_Details, In_DetailsMixed, In_DetailsTwice,
    In_Help, In_QMark, In_Exit, In_Quit, In_Bye,
    In_Empty, In_Blank, In_BareDetails, In_Natural }

\* The environment of Spec: every command, every collaborator outcome,
\* a short history
DispatchWorld ==
  [ lines |-> Commands,
    texts |-> {In_Empty, In_Blank, In_DetailsTwice},
    backend |-> BackendSuccesses \cup BackendFailures,
    search |-> SearchOutcomes,
    fetch |-> FetchOutcomes,
    cap |-> MaxDispatchExchanges ]

\* The environment of SpecWindow: one command of each kind, few tracker
\* outcomes, a history longer than the window
WindowWorld ==
  [ lines |-> {In_Natural, In_BareDetails, In_MyIssues, In_Details, In_Help, In_Exit, In_Empty},
    texts |-> {In_Natural, In_Empty},
    backend |-> {o \in BackendSuccesses : o.content # Txt_Empty} \cup BackendFailures,
    search |-> {NoSearch, [kind |-> "obj", value |-> SearchDict(TRUE, <<IssueFull>>, TRUE, 1)]},
    fetch |-> {NoFetch, [kind |-> "obj", value |-> FetchDict(IssueFull)]},
    cap |-> MaxExchanges ]

\* Which collaborators a command reaches (their outcome is drawn only then)
Callees(calls) == {calls[i].fn : i \in 1..Len(calls)}

Reached(history, command) ==
  Callees(process_command(history, command,
                          CHOOSE b \in BackendFailures : TRUE, NoSearch, NoFetch).trace)

BackendFor(W, history, reached) ==
  IF "backend" \notin reached THEN {NoBackend}
  ELSE IF Len(history) < 2 * W.cap THEN W.backend
  ELSE W.backend \cap BackendFailures

SearchFor(W, reached) == IF "search" \in reached THEN W.search ELSE {NoSearch}

FetchFor(W, reached) == IF "fetch" \in reached THEN W.fetch ELSE {NoFetch}

Init ==
  /\ conversation_history = <<>>
  /\ loop = "running"
  /\ op = [name |-> "init", arg |-> <<>>]
  /\ env = Quiet
  /\ history_before = <<>>
  /\ ret = NotCalled
  /\ trace = <<>>

\* What one call of chatbot.process_command leaves behind; main breaks
\* out of its loop when the answer is 'exit'
Returned(name, arg, b, s, f, r) ==
  /\ conversation_history' = r.history
  /\ history_before' = conversation_history
  /\ op' = [name |-> name, arg |-> arg]
  /\ env' = [backend |-> b, search |-> s, fetch |-> f]
  /\ ret' = [exc |-> r.exc, val |-> r.val]
  /\ trace' = r.trace
  /\ loop' = IF name = "main" /\ ~r.exc /\ r.val.kind = "exit"
               THEN "stopped" ELSE "running"

\* One call of chatbot.process_command(command) and everything it does
Invoke(W, name, arg, command) ==
  \E reached \in {Reached(conversation_history, command)} :
  \E b \in BackendFor(W, conversation_history, reached) :
  \E s \in SearchFor(W, reached) :
  \E f \in FetchFor(W, reached) :
    Returned(name, arg, b, s, f, process_command(conversation_history, command, b, s, f))

\* Nothing reached the session object in this step
Idle(name, arg) ==
  /\ op' = [name |-> name, arg |-> arg]
  /\ env' = Quiet
  /\ history_before' = conversation_history
  /\ ret' = NotCalled
  /\ trace' = <<>>
  /\ UNCHANGED conversation_history

\* A caller other than main uses the session object directly
ProcessCommandCall(W) ==
  /\ loop = "running"
  /\ \E command \in W.texts : Invoke(W, "process_command", command, command)

\* One pass of main's loop: read, strip, skip an empty line, dispatch,
\* break on 'exit', print; an Exception from the command is printed
MainIteration(W) ==
  /\ loop = "running"
  /\ \E line \in W.lines :
       LET user_input == Strip(line)
       IN IF ~Truthy(user_input)
            THEN Idle("main", line) /\ UNCHANGED loop
            ELSE Invoke(W, "main", line, user_input)

\* input() raises KeyboardInterrupt: goodbye, break
KeyboardInterrupt ==
  /\ loop = "running"
  /\ loop' = "stopped"
  /\ Idle("KeyboardInterrupt", <<>>)

\* input() raises an Exception (end of input): reported, the loop goes on
InputError ==
  /\ loop = "running"
  /\ Idle("InputError", <<>>)
  /\ UNCHANGED loop

Next ==
  \/ ProcessCommandCall(DispatchWorld)
  \/ MainIteration(DispatchWorld)
  \/ KeyboardInterrupt
  \/ InputError

Spec == Init /\ [][Next]_vars

NextWindow ==
  \/ ProcessCommandCall(WindowWorld)
  \/ MainIteration(WindowWorld)
  \/ KeyboardInterrupt
  \/ InputError

SpecWindow == Init /\ [][NextWindow]_vars

(* ------------------------------ properties ----------------------------- *)
\* process_command ran in the last step
Called == op.name \in {"process_command", "main"} /\ (ret.exc \/ ret.val.kind # "not_called")

\* the text of the last step, trimmed and lowercased
Cmd == Strip(Lower(op.arg))

\* positions in the last step's trace of the calls to fn
At(fn) == {i \in 1..Len(trace) : trace[i].fn = fn}

DetailsSpace == In_BareDetails \o <<" ">>
LiteralCommands == {MY_ISSUES, SHOW_MY_ISSUES, LIST_ISSUES, HELP, QMARK, EXIT, QUIT, BYE}

\* C1: the messages handed to the backend are one system turn, then the
\* last min(N, 5) of the N turns recorded before the call in their original
\* order, then the new user prompt, and nothing else.
C1_WindowedMessages ==
  \A i \in At("backend") :
    LET m == trace[i].messages
        N == Len(history_before)
        k == IF N < 5 THEN N ELSE 5
    IN /\ Len(m) = k + 2
       /\ m[1].role = "system"
       /\ \A j \in 1..k : m[1 + j] = history_before[N - k + j]
       /\ m[k + 2] = [role |-> "user", content |-> Cmd]

C1_Witness == At("backend") # {} /\ Len(history_before) > 5

\* C2: whenever the backend call fails during translation, the translator
\* returns the default query, that default is what the tracker is searched
\* with, and no error reaches the caller.
C2_FailureGivesDefault ==
  (At("backend") # {} /\ ~env.backend.ok) =>
    /\ ~ret.exc
    /\ \A i \in At("translate") : trace[i].ret = DEFAULT_JQL
    /\ \A i \in At("search") : trace[i].jql = DEFAULT_JQL

\* C3: whatever the backend does, the translator returns a non-empty string.
C3_TranslateNonEmpty ==
  \A i \in At("translate") : Len(trace[i].ret) > 0

\* C4: a translation whose backend call succeeds appends exactly two turns
\* to the history it found: the user turn with the instruction as passed to
\* the translator, then the assistant turn with the raw response.
C4_SuccessAppendsTwo ==
  (At("translate") # {} /\ env.backend.ok) =>
    \A i \in At("translate") :
      conversation_history =
        history_before \o <<[role |-> "user", content |-> trace[i].query],
                            [role |-> "assistant", content |-> env.backend.content]>>

C4_Witness ==
  /\ At("translate") # {}
  /\ env.backend.ok
  /\ env.backend.content = Txt_JqlPadded
  /\ Len(history_before) >= 2

\* C5: an input that trims and lowercases to a listing command searches the
\* tracker once, with exactly the fixed query, and calls neither the
\* translator nor the backend.
C5_ListingUsesFixedQuery ==
  (Called /\ Cmd \in {MY_ISSUES, SHOW_MY_ISSUES, LIST_ISSUES}) =>
    /\ Cardinality(At("search")) = 1
    /\ \A i \in At("search") : trace[i].jql = DEFAULT_JQL
    /\ At("translate") = {}
    /\ At("backend") = {}

C5_Witness == Called /\ op.arg = In_ListIssuesUpper /\ At("search") # {}

\* the input of the last step is no literal command and no details command
IsOther == Cmd \notin LiteralCommands /\ ~StartsWith(Cmd, DetailsSpace)

\* one translator call on the input, then one search with its output, then
\* the formatting
Pipeline ==
  /\ Cardinality(At("translate")) = 1
  /\ Cardinality(At("search")) = 1
  /\ \A i \in At("translate") : \A j \in At("search") :
       /\ trace[i].query = Cmd
       /\ i < j
       /\ trace[j].jql = trace[i].ret
       /\ \A f \in At("format") : j < f
  /\ ~ret.exc
  /\ ret.val.kind \in {"Found", "NoIssuesFound", "ErrorFetchingIssues"}

\* C6 as stated: every input that is no literal command and no details
\* command, the empty string included, goes through translate, search, format.
C6_EveryOtherInputTranslated == (Called /\ IsOther) => Pipeline

\* C6 as amended: every non-empty input that is no literal command and no
\* details command goes through exactly one translator call on it, then
\* exactly one search with the translator's output, then the formatting.
C6_NonEmptyOtherInputTranslated == (Called /\ IsOther /\ Cmd # <<>>) => Pipeline

C6_Witness ==
  /\ Called
  /\ Cmd = In_BareDetails
  /\ At("translate") # {}
  /\ At("format") # {}

\* the search came back with no issue at all
ZeroMatches(r) == r.type = "dict" /\ Len(r.issues) = 0

\* C7 as stated: with zero matching issues get_my_issues returns the
\* listing header, stating 0 found issues, and no per-issue block.
C7_ZeroMatchesHeader ==
  \A i \in At("search") :
    ZeroMatches(trace[i].ret) =>
      /\ ~ret.exc
      /\ ret.val.kind = "Found"
      /\ ret.val.total = 0
      /\ ret.val.blocks = <<>>

\* C7 as amended: with zero matching issues get_my_issues returns the
\* no-issues-found message, without listing header and per-issue block.
C7_ZeroMatchesMessage ==
  \A i \in At("search") :
    ZeroMatches(trace[i].ret) =>
      /\ ~ret.exc
      /\ ret.val.kind = "NoIssuesFound"
      /\ ret.val.blocks = <<>>
      /\ At("format") = {}

C7_Witness ==
  /\ env.search.kind = "obj"
  /\ \E i \in At("search") : ZeroMatches(trace[i].ret) /\ trace[i].ret.hasIssues

\* labels of the lines of the details block
Labels == IF ret.exc \/ ret.val.blocks = <<>> THEN {}
          ELSE {ret.val.blocks[1][n].label : n \in 1..Len(ret.val.blocks[1])}

\* C8: "details <ID>" fetches <ID> trimmed and uppercased; a record gives a
\* details block with identifier, summary, status, priority and, when
\* present, description; an absent identifier or a transport failure gives
\* a not-found message with that identifier; nothing is raised.
C8_DetailsById ==
  (Called /\ StartsWith(Cmd, DetailsSpace)) =>
    LET typed == Strip(op.arg)
        id == Upper(Strip(SubSeq(typed, Len(DetailsSpace) + 1, Len(typed))))
        answered == env.fetch.kind \in {"obj", "json"}
        record == env.fetch.value.issue
    IN /\ ~ret.exc
       /\ Cardinality(At("fetch")) = 1
       /\ \A i \in At("fetch") : trace[i].key = id
       /\ (/\ answered
           /\ env.fetch.value.type = "dict"
           /\ RequiredFields \subseteq record.has) =>
            /\ ret.val.kind = "Details"
            /\ ret.val.key = id
            /\ {"Issue Key", "Summary", "Status", "Priority"} \subseteq Labels
            /\ ("Description" \in Labels) <=>
                 ("description" \in record.has /\ record.description # <<>>)
       /\ (~answered \/ env.fetch.value.type = "None") =>
            /\ ret.val.kind = "NotFound"
            /\ ret.val.key = id

\* C9: process_command always returns a display string and never raises,
\* whatever the backend and the tracker do; it returns 'exit' only for
\* exit, quit and bye; the read loop stops only on that or on an interrupt.
C9_NoFailureIsFatal ==
  /\ Called =>
       /\ ~ret.exc
       /\ ret.val.kind \in {"Found", "NoIssuesFound", "ErrorFetchingIssues", "Details",
                            "NotFound", "ErrorFetchingDetails", "Help", "exit"}
       /\ (ret.val.kind = "exit") <=> (Cmd \in {EXIT, QUIT, BYE})
  /\ loop = "stopped" =>
       \/ op.name = "KeyboardInterrupt"
       \/ op.name = "main" /\ Cmd \in {EXIT, QUIT, BYE}

C9_Witness ==
  /\ op.name = "main"
  /\ loop = "running"
  /\ At("backend") # {}
  /\ ~env.backend.ok
  /\ env.search.kind = "obj"
  /\ ret.val.kind = "ErrorFetchingIssues"

\* C10: the history only grows at its end and only when a backend call
\* succeeded; a failed backend call and every command without one leave it
\* as it was; its length is even and its turns alternate user, assistant.
C10_HistoryAppendOnly ==
  /\ Len(history_before) <= Len(conversation_history)
  /\ SubSeq(conversation_history, 1, Len(history_before)) = history_before
  /\ (conversation_history # history_before) => (At("backend") # {} /\ env.backend.ok)
  /\ Len(conversation_history) % 2 = 0
  /\ \A i \in 1..Len(conversation_history) :
       conversation_history[i].role = IF i % 2 = 1 THEN "user" ELSE "assistant"

C10_Witness ==
  /\ At("backend") # {}
  /\ ~env.backend.ok
  /\ Len(history_before) >= 2
  /\ conversation_history = history_before
====
